---- MODULE Spec2Model ----
(***************************************************************************)
(* Model of the overlay node (src/src/overlay_node/mod.rs), of the RaptorQ *)
(* encoder (src/src/rldp_node/encoder.rs) and of two functions of          *)
(* src/src/utils/mod.rs.                                                   *)
(*                                                                         *)
(* Spec     : the table operations of OverlayNode, one action per call.    *)
(* CustomSpec : try_consume_custom over tables built by the table          *)
(*            operations.                                                  *)
(* QuerySpec: try_consume_query_bundle over tables and subscriber maps     *)
(*            built by the table operations.                               *)
(* EncSpec  : RaptorQEncoder::with_data followed by encode calls.          *)
(* CipherSpec : build_packet_cipher (src/src/utils/mod.rs) on 32-byte      *)
(*            inputs.                                                      *)
(* BundleSpec : the loop of deserialize_bundle (src/src/utils/mod.rs),     *)
(*            one pass per step.                                           *)
(* PeersSpec: add_private_peers and delete_private_peers over the peer     *)
(*            table of the ADNL node.                                      *)
(* TaskSpec : tasks calling the table operations at the same time, each    *)
(*            DashMap entry taken, matched and released in steps.          *)
(***************************************************************************)
EXTENDS Integers, Sequences, FiniteSets, TLC

(* ---------------------------- bounds ----------------------------------- *)
MaxShards == 2     \* shards allocated in one run
MaxCustom == 2     \* TL objects in the bytes of a custom message
MaxBundle == 3     \* TL objects in a query bundle
MaxBlocks == 2     \* block encoders of one payload
MaxSymbols == 2    \* source symbols of one block
MaxSeqno == 2      \* largest seqno a caller passes to encode
MaxRepair == 3     \* encode calls after the source packets are drained
MaxWords == 4      \* 4-byte words in the input of deserialize_bundle
MaxPeerList == 3   \* peers passed to one add_private_peers / delete_private_peers
MaxTasks == 3      \* tasks calling into one OverlayNode at the same time

(* opaque identities *)
OverlayIds == {"o1", "o2"}
Keys == {"k1", "k2"}
Options == {"opt1", "opt2"}
Peers == {"p1", "p2"}
Subscribers == {"s1", "s2"}
Answers == {"a1", "a2"}

(* Option::None, and every empty slot of the record of the last call *)
None == "None"

VARIABLES
    shards,        \* OverlayNode.shards : overlay id -> shard
    subscribers,   \* OverlayNode.subscribers : overlay id -> subscriber
    next_shard,    \* identity of the next Arc<OverlayShard> allocated
    last,          \* the last call: what it returned and what it invoked
    engine,        \* RaptorQEncoder.engine : source symbol count of each block encoder
    params,        \* RaptorQEncoder.params
    source_packets,\* RaptorQEncoder.source_packets
    encoder_index, \* RaptorQEncoder.encoder_index
    seqno,         \* the caller's seqno : [passed |-> before the call, now |-> after it]
    history,       \* outcome of every encode call so far, in call order
    cipher,        \* build_packet_cipher : its two inputs and the cipher it built
    deserializer,  \* deserialize_bundle : its input, the reader's position, the
                   \* objects read so far and what it returned
    adnl_peers,    \* AdnlNode peer table : local id -> (peer id -> peer entry)
    peers_call,    \* the last add_private_peers / delete_private_peers call
    tasks,         \* concurrent callers of OverlayNode : task -> its call, where it
                   \* is in it and what it holds
    entry_holder,  \* per DashMap, the task holding its lock through an Entry (0: none)
    detached       \* shards out of the shard table that an Arc still refers to

overlay_vars == <<shards, subscribers, next_shard, last>>
encoder_vars == <<engine, params, source_packets, encoder_index, seqno, history>>
utils_vars == <<cipher, deserializer>>
adnl_vars == <<adnl_peers, peers_call>>
task_vars == <<tasks, entry_holder, detached>>
vars == <<shards, subscribers, next_shard, last, engine, params, source_packets,
          encoder_index, seqno, history, cipher, deserializer,
          adnl_peers, peers_call, tasks, entry_holder, detached>>

(* ------------------------- TL objects ---------------------------------- *)
(* A TL object is its constructor tag plus the fields the node looks at.   *)
TLObject(tag, overlay, peers) == [tag |-> tag, overlay |-> overlay, peers |-> peers]

OverlayMessage(id) == TLObject("overlay.message", id, {})
OverlayQuery(id) == TLObject("overlay.query", id, {})
GetRandomPeers(ps) == TLObject("overlay.getRandomPeers", None, ps)
Ping == TLObject("adnl.ping", None, {})

BroadcastTags == {"overlay.broadcast", "overlay.broadcastFec",
                  "overlay.broadcastFecShort"}
Broadcasts == {TLObject(t, None, {}) : t \in BroadcastTags}

SeqsUpTo(S, n) == UNION {[1..k -> S] : k \in 0..n}

(* the bytes of a custom message: a sequence of serialized TL objects *)
CustomObjects == {OverlayMessage(id) : id \in OverlayIds} \cup Broadcasts \cup {Ping}
CustomData == SeqsUpTo(CustomObjects, MaxCustom)

(* query bundles *)
QueryObjects ==
    {OverlayQuery(id) : id \in OverlayIds} \cup {GetRandomPeers({"p1"})}
QueryBundles == SeqsUpTo(QueryObjects, MaxBundle)

(* ------------------------- results -------------------------------------- *)
Ret(kind, val, queries) == [kind |-> kind, val |-> val, queries |-> queries]
Ok(b) == Ret(IF b THEN "Ok(true)" ELSE "Ok(false)", None, <<>>)
Err(e) == Ret(e, None, <<>>)
Consumed(r) == Ret("Consumed", r, <<>>)
ShardOk == Ret("Ok(())", None, <<>>)
ShardErr == Err("ShardError")
ConsumerErr == Err("ConsumerError")
Rejected(qs) == Ret("Rejected", None, qs)
OkShard == Ret("Ok(shard)", None, <<>>)

(* shard = 0 : no shard returned or invoked *)
NoCall == [op |-> "new", overlay_id |-> None, subscriber |-> None, peers |-> {},
           data |-> <<>>, answer |-> Ret("()", None, <<>>),
           ret |-> Ret("()", None, <<>>), new |-> FALSE,
           shard |-> 0, shard_method |-> None, consumer |-> None]

(* ------------------------- OverlayShard -------------------------------- *)
OverlayShard_new(uid, overlay_id, overlay_key, options) ==
    [uid |-> uid, overlay_id |-> overlay_id, overlay_key |-> overlay_key,
     options |-> options, known_peers |-> {}]

is_private(shard) == shard.overlay_key # None

add_known_peers(shard, peers) ==
    [shard EXCEPT !.known_peers = @ \cup peers]

(* a public shard merges the peers carried by the query, a private one     *)
(* ignores them                                                            *)
process_get_random_peers(shard, query) ==
    IF is_private(shard) THEN shard
    ELSE [shard EXCEPT !.known_peers = @ \cup query.peers]

(* DashMap entry().insert() and entry().remove() *)
Insert(map, k, v) == [i \in DOMAIN map \cup {k} |-> IF i = k THEN v ELSE map[i]]
Remove(map, k) == [i \in DOMAIN map \ {k} |-> map[i]]

(* ------------------------- OverlayNode --------------------------------- *)
new ==
    /\ shards = << >>
    /\ subscribers = << >>
    /\ next_shard = 1
    /\ last = NoCall

add_subscriber_overwrite(overlay_id, subscriber) ==
    /\ subscribers' = Insert(subscribers, overlay_id, subscriber)
    /\ last' = [NoCall EXCEPT !.op = "add_subscriber", !.overlay_id = overlay_id,
                              !.subscriber = subscriber,
                              !.ret = Ok(overlay_id \notin DOMAIN subscribers)]
    /\ UNCHANGED <<shards, next_shard>>

add_subscriber(overlay_id, subscriber) ==
    /\ IF overlay_id \notin DOMAIN subscribers
       THEN /\ subscribers' = Insert(subscribers, overlay_id, subscriber)
            /\ last' = [NoCall EXCEPT !.op = "add_subscriber", !.overlay_id = overlay_id,
                                      !.subscriber = subscriber, !.ret = Ok(TRUE)]
       ELSE /\ subscribers' = subscribers
            /\ last' = [NoCall EXCEPT !.op = "add_subscriber", !.overlay_id = overlay_id,
                                      !.subscriber = subscriber, !.ret = Ok(FALSE)]
    /\ UNCHANGED <<shards, next_shard>>

add_overlay_shard_replace(table, uid, overlay_id, overlay_key, options) ==
    LET overlay_shard == OverlayShard_new(uid, overlay_id, overlay_key, options)
    IN IF overlay_id \notin DOMAIN table \/ table[overlay_id].options # options
       THEN [shards |-> Insert(table, overlay_id, overlay_shard),
             shard |-> overlay_shard, new |-> overlay_id \notin DOMAIN table]
       ELSE [shards |-> table, shard |-> table[overlay_id], new |-> FALSE]

(* the (table, shard, new) triple of add_overlay_shard *)
add_overlay_shard(table, uid, overlay_id, overlay_key, options) ==
    IF overlay_id \notin DOMAIN table
    THEN LET overlay_shard == OverlayShard_new(uid, overlay_id, overlay_key, options)
         IN [shards |-> Insert(table, overlay_id, overlay_shard),
             shard |-> overlay_shard, new |-> TRUE]
    ELSE [shards |-> table, shard |-> table[overlay_id], new |-> FALSE]

add_public_overlay(overlay_id, options) ==
    LET r == add_overlay_shard(shards, next_shard, overlay_id, None, options)
    IN /\ r.new => next_shard <= MaxShards
       /\ shards' = r.shards
       /\ next_shard' = IF r.new THEN next_shard + 1 ELSE next_shard
       /\ last' = [NoCall EXCEPT !.op = "add_public_overlay", !.overlay_id = overlay_id,
                                 !.ret = OkShard, !.new = r.new, !.shard = r.shard.uid]
       /\ UNCHANGED subscribers

add_private_overlay_seed_always(overlay_id, overlay_key, peers, options) ==
    LET r == add_overlay_shard(shards, next_shard, overlay_id, overlay_key, options)
    IN /\ r.new => next_shard <= MaxShards
       /\ shards' = Insert(r.shards, overlay_id, add_known_peers(r.shard, peers))
       /\ next_shard' = IF r.new THEN next_shard + 1 ELSE next_shard
       /\ last' = [NoCall EXCEPT !.op = "add_private_overlay", !.overlay_id = overlay_id,
                                 !.peers = peers, !.ret = Ok(r.new), !.new = r.new,
                                 !.shard = r.shard.uid]
       /\ UNCHANGED subscribers

add_private_overlay(overlay_id, overlay_key, peers, options) ==
    LET r == add_overlay_shard(shards, next_shard, overlay_id, overlay_key, options)
    IN /\ r.new => next_shard <= MaxShards
       /\ shards' = IF r.new
                    THEN Insert(r.shards, overlay_id, add_known_peers(r.shard, peers))
                    ELSE r.shards
       /\ next_shard' = IF r.new THEN next_shard + 1 ELSE next_shard
       /\ last' = [NoCall EXCEPT !.op = "add_private_overlay", !.overlay_id = overlay_id,
                                 !.peers = peers, !.ret = Ok(r.new), !.new = r.new,
                                 !.shard = r.shard.uid]
       /\ UNCHANGED subscribers

delete_any_overlay(overlay_id) ==
    /\ IF overlay_id \in DOMAIN shards
       THEN /\ shards' = Remove(shards, overlay_id)
            /\ last' = [NoCall EXCEPT !.op = "delete_private_overlay",
                                      !.overlay_id = overlay_id, !.ret = Ok(TRUE)]
       ELSE /\ shards' = shards
            /\ last' = [NoCall EXCEPT !.op = "delete_private_overlay",
                                      !.overlay_id = overlay_id, !.ret = Ok(FALSE)]
    /\ UNCHANGED <<subscribers, next_shard>>

delete_overlay_and_subscriber(overlay_id) ==
    /\ IF overlay_id \in DOMAIN shards
       THEN IF ~is_private(shards[overlay_id])
            THEN /\ shards' = shards
                 /\ subscribers' = subscribers
                 /\ last' = [NoCall EXCEPT !.op = "delete_private_overlay",
                                           !.overlay_id = overlay_id,
                                           !.ret = Err("DeletingPublicOverlay")]
            ELSE /\ shards' = Remove(shards, overlay_id)
                 /\ subscribers' = Remove(subscribers, overlay_id)
                 /\ last' = [NoCall EXCEPT !.op = "delete_private_overlay",
                                           !.overlay_id = overlay_id, !.ret = Ok(TRUE)]
       ELSE /\ shards' = shards
            /\ subscribers' = subscribers
            /\ last' = [NoCall EXCEPT !.op = "delete_private_overlay",
                                      !.overlay_id = overlay_id, !.ret = Ok(FALSE)]
    /\ UNCHANGED next_shard

delete_private_overlay(overlay_id) ==
    /\ IF overlay_id \in DOMAIN shards
       THEN IF ~is_private(shards[overlay_id])
            THEN /\ shards' = shards
                 /\ last' = [NoCall EXCEPT !.op = "delete_private_overlay",
                                           !.overlay_id = overlay_id,
                                           !.ret = Err("DeletingPublicOverlay")]
            ELSE /\ shards' = Remove(shards, overlay_id)
                 /\ last' = [NoCall EXCEPT !.op = "delete_private_overlay",
                                           !.overlay_id = overlay_id, !.ret = Ok(TRUE)]
       ELSE /\ shards' = shards
            /\ last' = [NoCall EXCEPT !.op = "delete_private_overlay",
                                      !.overlay_id = overlay_id, !.ret = Ok(FALSE)]
    /\ UNCHANGED <<subscribers, next_shard>>

get_overlay_shard(overlay_id) ==
    /\ last' = IF overlay_id \in DOMAIN shards
               THEN [NoCall EXCEPT !.op = "get_overlay_shard", !.overlay_id = overlay_id,
                                   !.ret = OkShard, !.shard = shards[overlay_id].uid]
               ELSE [NoCall EXCEPT !.op = "get_overlay_shard", !.overlay_id = overlay_id,
                                   !.ret = Err("UnknownOverlay")]
    /\ UNCHANGED <<shards, subscribers, next_shard>>

(* ------------------- OverlayNode as ADNL subscriber -------------------- *)
(* tl_proto::deserialize::<(Message, Broadcast)>: reads a boxed Message,   *)
(* then a boxed Broadcast; bytes after the pair are not looked at          *)
deserialize_pair(data) ==
    IF /\ Len(data) >= 2
       /\ data[1].tag = "overlay.message"
       /\ data[2].tag \in BroadcastTags
    THEN [ok |-> TRUE, message |-> data[1], broadcast |-> data[2]]
    ELSE [ok |-> FALSE, message |-> Ping, broadcast |-> Ping]

consume_custom_variant_first(table, data, shard_result) ==
    LET call == [NoCall EXCEPT !.op = "try_consume_custom", !.data = data,
                                  !.answer = shard_result]
        bundle == deserialize_pair(data)
        overlay_id == bundle.message.overlay
    IN IF ~bundle.ok THEN [call EXCEPT !.ret = Ok(FALSE)]
       ELSE IF bundle.broadcast.tag \notin {"overlay.broadcast", "overlay.broadcastFec"}
       THEN [call EXCEPT !.overlay_id = overlay_id,
                         !.ret = Err("UnsupportedOverlayBroadcastMessage")]
       ELSE IF overlay_id \notin DOMAIN table
       THEN [call EXCEPT !.overlay_id = overlay_id, !.ret = Err("UnknownOverlay")]
       ELSE [call EXCEPT !.overlay_id = overlay_id, !.shard = table[overlay_id].uid,
                         !.shard_method = IF bundle.broadcast.tag = "overlay.broadcast"
                                          THEN "receive_broadcast"
                                          ELSE "receive_fec_broadcast",
                         !.ret = IF shard_result = ShardOk THEN Ok(TRUE)
                                 ELSE shard_result]

(* result and invocation of try_consume_custom; shard_result is what the   *)
(* shard's receive method returns when it is called                        *)
consume_custom(table, data, shard_result) ==
    LET call == [NoCall EXCEPT !.op = "try_consume_custom", !.data = data,
                                  !.answer = shard_result]
        bundle == deserialize_pair(data)
        overlay_id == bundle.message.overlay
    IN IF ~bundle.ok THEN [call EXCEPT !.ret = Ok(FALSE)]
       ELSE IF overlay_id \notin DOMAIN table
       THEN [call EXCEPT !.overlay_id = overlay_id, !.ret = Err("UnknownOverlay")]
       ELSE IF bundle.broadcast.tag = "overlay.broadcast"
       THEN [call EXCEPT !.overlay_id = overlay_id, !.shard = table[overlay_id].uid,
                         !.shard_method = "receive_broadcast",
                         !.ret = IF shard_result = ShardOk THEN Ok(TRUE)
                                 ELSE shard_result]
       ELSE IF bundle.broadcast.tag = "overlay.broadcastFec"
       THEN [call EXCEPT !.overlay_id = overlay_id, !.shard = table[overlay_id].uid,
                         !.shard_method = "receive_fec_broadcast",
                         !.ret = IF shard_result = ShardOk THEN Ok(TRUE)
                                 ELSE shard_result]
       ELSE [call EXCEPT !.overlay_id = overlay_id,
                         !.ret = Err("UnsupportedOverlayBroadcastMessage")]

try_consume_custom(data, shard_result) ==
    /\ last' = consume_custom(shards, data, shard_result)
    /\ UNCHANGED <<shards, subscribers, next_shard>>

(* Vec::remove(0) and Vec::insert(0, x) *)
remove0(v) == [item |-> Head(v), rest |-> Tail(v)]
insert_last(v, x) == v \o <<x>>
insert0(v, x) == <<x>> \o v

(* QueryBundleConsumingResult::consume *)
consume(answer) == Consumed(answer)

consume_query_bundle_consumer_first(table, subs, queries, consumer_result) ==
    LET call == [NoCall EXCEPT !.op = "try_consume_query_bundle", !.data = queries,
                                  !.answer = consumer_result]
    IN IF Len(queries) # 2 \/ queries[1].tag # "overlay.query"
       THEN [shards |-> table, call |-> [call EXCEPT !.ret = Rejected(queries)]]
       ELSE
       LET overlay_id == queries[1].overlay
           query == queries[2]
       IN IF overlay_id \in DOMAIN subs
          THEN [shards |-> table,
                call |-> [call EXCEPT !.overlay_id = overlay_id,
                                      !.consumer = subs[overlay_id],
                                      !.ret = IF consumer_result.kind = "Consumed"
                                              THEN Consumed(consumer_result.val)
                                              ELSE IF consumer_result.kind = "Rejected"
                                              THEN Err("UnsupportedQuery")
                                              ELSE consumer_result]]
          ELSE IF query.tag # "overlay.getRandomPeers"
          THEN [shards |-> table,
                call |-> [call EXCEPT !.overlay_id = overlay_id,
                                      !.ret = Err("NoConsumerFound")]]
          ELSE IF overlay_id \notin DOMAIN table
          THEN [shards |-> table,
                call |-> [call EXCEPT !.overlay_id = overlay_id,
                                      !.ret = Err("UnknownOverlay")]]
          ELSE [shards |-> Insert(table, overlay_id,
                             process_get_random_peers(table[overlay_id], query)),
                call |-> [call EXCEPT !.overlay_id = overlay_id,
                                      !.shard = table[overlay_id].uid,
                                      !.shard_method = "process_get_random_peers",
                                      !.ret = consume("nodes")]]

consume_query_bundle_shard_first(table, subs, queries, consumer_result) ==
    LET call == [NoCall EXCEPT !.op = "try_consume_query_bundle", !.data = queries,
                                  !.answer = consumer_result]
    IN IF Len(queries) # 2
       THEN [shards |-> table, call |-> [call EXCEPT !.ret = Rejected(queries)]]
       ELSE
       LET first == remove0(queries)
       IN IF first.item.tag # "overlay.query"
          THEN [shards |-> table,
                call |-> [call EXCEPT !.ret = Rejected(insert0(first.rest, first.item))]]
          ELSE
          LET overlay_id == first.item.overlay
              query == remove0(first.rest).item
          IN IF overlay_id \notin DOMAIN table
             THEN [shards |-> table,
                   call |-> [call EXCEPT !.overlay_id = overlay_id,
                                         !.ret = Err("UnknownOverlay")]]
             ELSE IF query.tag = "overlay.getRandomPeers"
             THEN [shards |-> Insert(table, overlay_id,
                                process_get_random_peers(table[overlay_id], query)),
                   call |-> [call EXCEPT !.overlay_id = overlay_id,
                                         !.shard = table[overlay_id].uid,
                                         !.shard_method = "process_get_random_peers",
                                         !.ret = consume("nodes")]]
             ELSE IF overlay_id \notin DOMAIN subs
             THEN [shards |-> table,
                   call |-> [call EXCEPT !.overlay_id = overlay_id,
                                         !.ret = Err("NoConsumerFound")]]
             ELSE [shards |-> table,
                   call |-> [call EXCEPT !.overlay_id = overlay_id,
                                         !.consumer = subs[overlay_id],
                                         !.ret = IF consumer_result.kind = "Consumed"
                                                 THEN Consumed(consumer_result.val)
                                                 ELSE IF consumer_result.kind = "Rejected"
                                                 THEN Err("UnsupportedQuery")
                                                 ELSE consumer_result]]

(* result, invocation and shard table of try_consume_query_bundle;         *)
(* consumer_result is what the subscriber's try_consume_query returns when *)
(* it is called                                                            *)
consume_query_bundle(table, subs, queries, consumer_result) ==
    LET call == [NoCall EXCEPT !.op = "try_consume_query_bundle", !.data = queries,
                                  !.answer = consumer_result]
    IN IF Len(queries) # 2
       THEN [shards |-> table, call |-> [call EXCEPT !.ret = Rejected(queries)]]
       ELSE
       LET first == remove0(queries)
       IN IF first.item.tag # "overlay.query"
          THEN [shards |-> table,
                call |-> [call EXCEPT !.ret = Rejected(insert0(first.rest, first.item))]]
          ELSE
          LET overlay_id == first.item.overlay
              query == remove0(first.rest).item
          IN IF query.tag = "overlay.getRandomPeers"
             THEN IF overlay_id \notin DOMAIN table
                  THEN [shards |-> table,
                        call |-> [call EXCEPT !.overlay_id = overlay_id,
                                              !.ret = Err("UnknownOverlay")]]
                  ELSE [shards |-> Insert(table, overlay_id,
                                     process_get_random_peers(table[overlay_id], query)),
                        call |-> [call EXCEPT !.overlay_id = overlay_id,
                                              !.shard = table[overlay_id].uid,
                                              !.shard_method = "process_get_random_peers",
                                              !.ret = consume("nodes")]]
             ELSE IF overlay_id \notin DOMAIN subs
             THEN [shards |-> table,
                   call |-> [call EXCEPT !.overlay_id = overlay_id,
                                         !.ret = Err("NoConsumerFound")]]
             ELSE [shards |-> table,
                   call |-> [call EXCEPT !.overlay_id = overlay_id,
                                         !.consumer = subs[overlay_id],
                                         !.ret = IF consumer_result.kind = "Consumed"
                                                 THEN Consumed(consumer_result.val)
                                                 ELSE IF consumer_result.kind = "Rejected"
                                                 THEN Err("UnsupportedQuery")
                                                 ELSE consumer_result]]

try_consume_query_bundle(queries, consumer_result) ==
    LET r == consume_query_bundle(shards, subscribers, queries, consumer_result)
    IN /\ shards' = r.shards
       /\ last' = r.call
       /\ UNCHANGED <<subscribers, next_shard>>

(* what a shard's receive method, and a subscriber, can answer; an answer  *)
(* exists only when the bytes decode, or the bundle is (Query, inner) with *)
(* an inner query that is not GetRandomPeers                               *)
ShardResults(data) ==
    IF deserialize_pair(data).ok THEN {ShardOk, ShardErr} ELSE {ShardOk}
ConsumerResults(queries) ==
    IF /\ Len(queries) = 2
       /\ queries[1].tag = "overlay.query"
       /\ queries[2].tag # "overlay.getRandomPeers"
    THEN {Consumed(r) : r \in Answers} \cup {Rejected(<<>>), ConsumerErr}
    ELSE {Rejected(<<>>)}


(* ------------------------- RaptorQEncoder ------------------------------ *)
MAX_TRANSMISSION_UNIT == 768

(* raptorq::EncodingPacket: payload id (source block number, encoding      *)
(* symbol id) and whether it is a source or a repair symbol                *)
EncodingPacket(kind, block, esi) == [kind |-> kind, block |-> block, esi |-> esi]

(* SourceBlockEncoder::source_packets of block encoder i (0-based), whose  *)
(* block has k source symbols: encoding symbol ids 0 .. k-1, ascending     *)
source_packets_of(i, k) == [e \in 1..k |-> EncodingPacket("source", i, e - 1)]

(* SourceBlockEncoder::repair_packets(start_repair_symbol_id, 1) of block  *)
(* encoder i with k source symbols: repair symbol j has encoding symbol id *)
(* k + j; yields = FALSE is a block encoder that hands back no packet      *)
repair_packets(i, k, start_repair_symbol_id, yields) ==
    IF yields THEN <<EncodingPacket("repair", i, k + start_repair_symbol_id)>>
    ELSE <<>>

in_library_order(v) == v

rev(v) == [i \in 1..Len(v) |-> v[Len(v) + 1 - i]]

(* .iter().flat_map(|encoder| encoder.source_packets().into_iter().rev())  *)
RECURSIVE flat_map_rev(_, _)
flat_map_rev(blocks, i) ==
    IF i > Len(blocks) THEN <<>>
    ELSE rev(source_packets_of(i - 1, blocks[i])) \o flat_map_rev(blocks, i + 1)

(* with_data: blocks is the partition of the payload made by               *)
(* raptorq::Encoder::with_defaults, data_size the payload length           *)
with_data(blocks, data_size) ==
    /\ engine = <<>>
    /\ engine' = blocks
    /\ source_packets' = flat_map_rev(blocks, 1)
    /\ params' = [data_size |-> data_size, symbol_size |-> MAX_TRANSMISSION_UNIT,
                  symbols_count |-> Len(flat_map_rev(blocks, 1))]
    /\ encoder_index' = 0
    /\ UNCHANGED <<seqno, history>>

encode_result_by_seqno(buffer, index, seqno_in, yields) ==
    IF buffer # <<>> /\ seqno_in < params.symbols_count
    THEN LET packet == buffer[Len(buffer)]
         IN [source_packets |-> SubSeq(buffer, 1, Len(buffer) - 1),
             encoder_index |-> index, seqno |-> packet.esi, outcome |-> packet]
    ELSE LET repair == repair_packets(index, engine[index + 1], seqno_in, yields)
         IN IF repair = <<>>
            THEN [source_packets |-> buffer, encoder_index |-> index,
                  seqno |-> seqno_in,
                  outcome |-> EncodingPacket("FailedToEncode", index, 0)]
            ELSE [source_packets |-> buffer,
                  encoder_index |-> (index + 1) % Len(engine),
                  seqno |-> repair[1].esi, outcome |-> repair[1]]

encode_result_seqno_kept(buffer, index, seqno_in, yields) ==
    IF buffer # <<>>
    THEN LET packet == buffer[Len(buffer)]
         IN [source_packets |-> SubSeq(buffer, 1, Len(buffer) - 1),
             encoder_index |-> index, seqno |-> seqno_in, outcome |-> packet]
    ELSE LET repair == repair_packets(index, engine[index + 1], seqno_in, yields)
         IN IF repair = <<>>
            THEN [source_packets |-> buffer, encoder_index |-> index,
                  seqno |-> seqno_in,
                  outcome |-> EncodingPacket("FailedToEncode", index, 0)]
            ELSE [source_packets |-> buffer,
                  encoder_index |-> (index + 1) % Len(engine),
                  seqno |-> seqno_in, outcome |-> repair[1]]

encode_result_index_every_call(buffer, index, seqno_in, yields) ==
    IF buffer # <<>>
    THEN LET packet == buffer[Len(buffer)]
         IN [source_packets |-> SubSeq(buffer, 1, Len(buffer) - 1),
             encoder_index |-> (index + 1) % Len(engine),
             seqno |-> packet.esi, outcome |-> packet]
    ELSE LET repair == repair_packets(index, engine[index + 1], seqno_in, yields)
         IN IF repair = <<>>
            THEN [source_packets |-> buffer, encoder_index |-> index,
                  seqno |-> seqno_in,
                  outcome |-> EncodingPacket("FailedToEncode", index, 0)]
            ELSE [source_packets |-> buffer,
                  encoder_index |-> (index + 1) % Len(engine),
                  seqno |-> repair[1].esi, outcome |-> repair[1]]

encode_result_index_on_failure(buffer, index, seqno_in, yields) ==
    IF buffer # <<>>
    THEN LET packet == buffer[Len(buffer)]
         IN [source_packets |-> SubSeq(buffer, 1, Len(buffer) - 1),
             encoder_index |-> index, seqno |-> packet.esi, outcome |-> packet]
    ELSE LET repair == repair_packets(index, engine[index + 1], seqno_in, yields)
         IN IF repair = <<>>
            THEN [source_packets |-> buffer,
                  encoder_index |-> (index + 1) % Len(engine),
                  seqno |-> seqno_in,
                  outcome |-> EncodingPacket("FailedToEncode", index, 0)]
            ELSE [source_packets |-> buffer,
                  encoder_index |-> (index + 1) % Len(engine),
                  seqno |-> repair[1].esi, outcome |-> repair[1]]

(* the encoder fields, the caller's seqno and the outcome of one encode    *)
encode_result(buffer, index, seqno_in, yields) ==
    IF buffer # <<>>
    THEN LET packet == buffer[Len(buffer)]
         IN [source_packets |-> SubSeq(buffer, 1, Len(buffer) - 1),
             encoder_index |-> index, seqno |-> packet.esi, outcome |-> packet]
    ELSE LET repair == repair_packets(index, engine[index + 1], seqno_in, yields)
         IN IF repair = <<>>
            THEN [source_packets |-> buffer, encoder_index |-> index,
                  seqno |-> seqno_in,
                  outcome |-> EncodingPacket("FailedToEncode", index, 0)]
            ELSE [source_packets |-> buffer,
                  encoder_index |-> (index + 1) % Len(engine),
                  seqno |-> repair[1].esi, outcome |-> repair[1]]

encode(seqno_in, yields) ==
    LET r == encode_result(source_packets, encoder_index, seqno_in, yields)
    IN /\ engine # <<>>
       /\ source_packets = <<>> => Len(history) < params.symbols_count + MaxRepair
       /\ source_packets' = r.source_packets
       /\ encoder_index' = r.encoder_index
       /\ seqno' = [passed |-> seqno_in, now |-> r.seqno]
       /\ history' = Append(history, r.outcome)
       /\ UNCHANGED <<engine, params>>

RECURSIVE Sum(_)
Sum(v) == IF v = <<>> THEN 0 ELSE Head(v) + Sum(Tail(v))

(* the partitions with_defaults can make, and the payload lengths that fit *)
Partitions == UNION {[1..n -> 1..MaxSymbols] : n \in 1..MaxBlocks}
DataSizes(blocks) ==
    {(Sum(blocks) - 1) * MAX_TRANSMISSION_UNIT + 1, Sum(blocks) * MAX_TRANSMISSION_UNIT}

(* ------------------------- utils: packet cipher ------------------------ *)
(* a byte array is a function from 0 .. length-1 to bytes                  *)
(* array[lo..hi] *)
slice(array, lo, hi) == [i \in 0..(hi - lo - 1) |-> array[lo + i]]

(* array[lo..hi].copy_from_slice(src); src has hi - lo bytes *)
copy_from_slice(array, lo, hi, src) ==
    [i \in DOMAIN array |-> IF lo <= i /\ i < hi THEN src[i - lo] ELSE array[i]]

(* aes::Aes256Ctr::new(key, nonce): the cipher is its key and its counter  *)
(* block                                                                   *)
Aes256Ctr(key, nonce) == [key |-> key, nonce |-> nonce]

build_packet_cipher_nonce_from_16(shared_secret, checksum) ==
    LET aes_key_bytes == copy_from_slice(shared_secret, 16, 32, slice(checksum, 16, 32))
        aes_ctr_bytes == copy_from_slice(slice(checksum, 0, 16), 4, 16,
                                         slice(shared_secret, 16, 28))
    IN Aes256Ctr(aes_key_bytes, aes_ctr_bytes)

build_packet_cipher(shared_secret, checksum) ==
    LET aes_key_bytes == copy_from_slice(shared_secret, 16, 32, slice(checksum, 16, 32))
        aes_ctr_bytes == copy_from_slice(slice(checksum, 0, 16), 4, 16,
                                         slice(shared_secret, 20, 32))
    IN Aes256Ctr(aes_key_bytes, aes_ctr_bytes)

(* no cipher asked for *)
NoBytes == <<>>
CipherIdle ==
    cipher = [shared_secret |-> NoBytes, checksum |-> NoBytes,
              built |-> Aes256Ctr(NoBytes, NoBytes)]

(* one call of build_packet_cipher on the inputs at hand *)
build_cipher ==
    /\ cipher.built.key = NoBytes
    /\ cipher.shared_secret # NoBytes
    /\ cipher' = [cipher EXCEPT
                     !.built = build_packet_cipher(cipher.shared_secret, cipher.checksum)]

(* the inputs: 32-byte arrays whose bytes all differ, and every array that *)
(* differs from one of them in one byte                                    *)
OneByteChanged(array) ==
    {array} \cup {[array EXCEPT ![p] = 255 - array[p]] : p \in DOMAIN array}
SharedSecrets == OneByteChanged([i \in 0..31 |-> i])
Checksums == OneByteChanged([i \in 0..31 |-> 64 + i])

(* ------------------------- utils: deserialize_bundle ------------------- *)
(* The input is a sequence of 4-byte words. A boxed TL object is its       *)
(* constructor id followed by its fields: "ctorA" has no field, "ctorB"    *)
(* has one word; any other word is no constructor id.                      *)
Words == {"ctorA", "ctorB", "other"}

ReadOk(object, offset) == [ok |-> TRUE, object |-> object, error |-> None, offset |-> offset]
ReadErr(error, offset) == [ok |-> FALSE, object |-> None, error |-> error, offset |-> offset]

(* Deserializer::read_boxed::<TLObject>() with the reader at word offset   *)
(* (from 1) of bytes                                                       *)
read_boxed(bytes, offset) ==
    IF offset > Len(bytes) THEN ReadErr("unexpected end of input", offset)
    ELSE IF bytes[offset] = "ctorA"
    THEN ReadOk([constructor |-> "ctorA", fields |-> <<>>], offset + 1)
    ELSE IF bytes[offset] = "ctorB"
    THEN IF offset + 1 > Len(bytes)
         THEN ReadErr("unexpected end of input", offset + 1)
         ELSE ReadOk([constructor |-> "ctorB", fields |-> <<bytes[offset + 1]>>],
                     offset + 2)
    ELSE ReadErr("unknown constructor", offset + 1)

BundleOk(objects) == [kind |-> "Ok", objects |-> objects, error |-> None]
BundleErr(error) == [kind |-> "Err", objects |-> <<>>, error |-> error]

(* deserialize_bundle not called *)
BundleNotCalled ==
    [bytes |-> <<>>, offset |-> 1, result |-> <<>>, pc |-> "idle",
     ret |-> [kind |-> None, objects |-> <<>>, error |-> None]]
BundleIdle == deserializer = BundleNotCalled

deserialize_bundle_loop_empty_ok(b) ==
    LET read == read_boxed(b.bytes, b.offset)
    IN IF read.ok
       THEN [b EXCEPT !.result = Append(b.result, read.object), !.offset = read.offset]
       ELSE [b EXCEPT !.offset = read.offset, !.pc = "done", !.ret = BundleOk(b.result)]

(* one pass of the loop of deserialize_bundle *)
deserialize_bundle_loop(b) ==
    LET read == read_boxed(b.bytes, b.offset)
    IN IF read.ok
       THEN [b EXCEPT !.result = Append(b.result, read.object), !.offset = read.offset]
       ELSE IF b.result = <<>>
       THEN [b EXCEPT !.offset = read.offset, !.pc = "done", !.ret = BundleErr(read.error)]
       ELSE [b EXCEPT !.offset = read.offset, !.pc = "done", !.ret = BundleOk(b.result)]

deserialize_bundle ==
    /\ deserializer.pc = "loop"
    /\ deserializer' = deserialize_bundle_loop(deserializer)

(* ------------------------- private overlay peers ----------------------- *)
LocalIds == {"l1", "l2"}
LocalKeys == {"l1"}          \* the local ids the ADNL node has a key for
PublicKeys == {"pk1", "pk2"}
Addresses == {"ip1", "ip2"}

(* ed25519::PublicKey::compute_node_ids: the full id holds the key, the    *)
(* short id is the hash of the boxed key                                   *)
ShortIds == "pk1" :> "n1" @@ "pk2" :> "n2"
compute_node_ids(public_key) ==
    [peer_full_id |-> <<"pub.ed25519", public_key>>, peer_id |-> ShortIds[public_key]]

(* AdnlNode::add_peer on the peer table: whether the peer was newly        *)
(* inserted, UnknownLocalKey without a key for local_id; fails = TRUE is a *)
(* call the ADNL node fails for a reason of its own                        *)
add_peer(table, local_id, peer_id, peer_ip_address, peer_full_id, fails) ==
    IF local_id \notin DOMAIN table
    THEN [peers |-> table, ok |-> FALSE, new |-> FALSE, error |-> "UnknownLocalKey"]
    ELSE IF fails
    THEN [peers |-> table, ok |-> FALSE, new |-> FALSE, error |-> "AdnlError"]
    ELSE IF peer_id \in DOMAIN table[local_id]
    THEN [peers |-> table, ok |-> TRUE, new |-> FALSE, error |-> None]
    ELSE [peers |-> [table EXCEPT ![local_id] =
                        Insert(@, peer_id, [address |-> peer_ip_address,
                                            full_id |-> peer_full_id])],
          ok |-> TRUE, new |-> TRUE, error |-> None]

(* AdnlNode::delete_peer: whether a peer was removed *)
delete_peer(table, local_id, peer_id) ==
    IF local_id \notin DOMAIN table
    THEN [peers |-> table, ok |-> FALSE, removed |-> FALSE, error |-> "UnknownLocalKey"]
    ELSE IF peer_id \in DOMAIN table[local_id]
    THEN [peers |-> [table EXCEPT ![local_id] = Remove(@, peer_id)],
          ok |-> TRUE, removed |-> TRUE, error |-> None]
    ELSE [peers |-> table, ok |-> TRUE, removed |-> FALSE, error |-> None]

PeersOk(new_peers, changed) ==
    [kind |-> "Ok", new_peers |-> new_peers, changed |-> changed, error |-> None]
PeersErr(error) ==
    [kind |-> "Err", new_peers |-> <<>>, changed |-> FALSE, error |-> error]

RECURSIVE add_private_peers_push_all(_, _, _, _, _, _)
add_private_peers_push_all(table, local_id, peers, i, new_peers, failing) ==
    IF i > Len(peers) THEN [peers |-> table, ret |-> PeersOk(new_peers, FALSE)]
    ELSE LET ids == compute_node_ids(peers[i].public_key)
             added == add_peer(table, local_id, ids.peer_id, peers[i].address,
                               ids.peer_full_id, i = failing)
         IN IF ~added.ok THEN [peers |-> added.peers, ret |-> PeersErr(added.error)]
            ELSE add_private_peers_push_all(added.peers, local_id, peers, i + 1,
                                            Append(new_peers, ids.peer_id), failing)

(* the loop of add_private_peers from its i-th peer on; failing is the     *)
(* position of the peer whose add_peer call fails, 0 for none              *)
RECURSIVE add_private_peers_loop(_, _, _, _, _, _)
add_private_peers_loop(table, local_id, peers, i, new_peers, failing) ==
    IF i > Len(peers) THEN [peers |-> table, ret |-> PeersOk(new_peers, FALSE)]
    ELSE LET ids == compute_node_ids(peers[i].public_key)
             added == add_peer(table, local_id, ids.peer_id, peers[i].address,
                               ids.peer_full_id, i = failing)
         IN IF ~added.ok THEN [peers |-> added.peers, ret |-> PeersErr(added.error)]
            ELSE add_private_peers_loop(added.peers, local_id, peers, i + 1,
                                        IF added.new THEN Append(new_peers, ids.peer_id)
                                        ELSE new_peers,
                                        failing)

add_private_peers(local_id, peers, failing) ==
    LET r == add_private_peers_loop(adnl_peers, local_id, peers, 1, <<>>, failing)
    IN /\ adnl_peers' = r.peers
       /\ peers_call' = [op |-> "add_private_peers", local_id |-> local_id,
                         peers |-> peers, failing |-> failing, ret |-> r.ret]

(* the loop of delete_private_peers from its i-th peer on *)
RECURSIVE delete_private_peers_loop(_, _, _, _, _)
delete_private_peers_loop(table, local_id, peers, i, changed) ==
    IF i > Len(peers) THEN [peers |-> table, ret |-> PeersOk(<<>>, changed)]
    ELSE LET deleted == delete_peer(table, local_id, peers[i])
         IN IF ~deleted.ok THEN [peers |-> deleted.peers, ret |-> PeersErr(deleted.error)]
            ELSE delete_private_peers_loop(deleted.peers, local_id, peers, i + 1,
                                           changed \/ deleted.removed)

delete_private_peers(local_id, peers) ==
    LET r == delete_private_peers_loop(adnl_peers, local_id, peers, 1, FALSE)
    IN /\ adnl_peers' = r.peers
       /\ peers_call' = [op |-> "delete_private_peers", local_id |-> local_id,
                         peers |-> peers, failing |-> 0, ret |-> r.ret]

(* an ADNL node with its local keys and no peers; no call made *)
AdnlNew == adnl_peers = [local_id \in LocalKeys |-> <<>>]
AdnlIdle ==
    /\ AdnlNew
    /\ peers_call = [op |-> None, local_id |-> None, peers |-> <<>>, failing |-> 0,
                     ret |-> PeersOk(<<>>, FALSE)]

(* the peers a caller passes: two keys, one of them at two addresses *)
PeerEntries ==
    {e \in [address : Addresses, public_key : PublicKeys] :
        e.public_key = "pk2" => e.address = "ip1"}
PeerLists == SeqsUpTo(PeerEntries, MaxPeerList)
PeerIdLists == SeqsUpTo({ShortIds[k] : k \in PublicKeys}, MaxPeerList)

(* ------------------- OverlayNode under concurrent callers -------------- *)
(* Every task makes one call on the overlay id TaskOverlay. A call that    *)
(* goes through DashMap::entry takes the lock of the map when the Entry is *)
(* made and gives it back when the Entry is consumed or dropped, at the    *)
(* end of the match; what add_private_overlay does after add_overlay_shard *)
(* has returned is a step of its own.                                      *)
TaskOverlay == "o1"

TaskCall(op, overlay_key, peers, subscriber) ==
    [op |-> op, overlay_key |-> overlay_key, peers |-> peers, subscriber |-> subscriber,
     pc |-> "entry", entry |-> None, shard |-> 0, new |-> FALSE, ret |-> NoCall.ret,
     seen |-> {}]

TaskCalls ==
    {TaskCall("add_public_overlay", None, {}, None),
     TaskCall("delete_private_overlay", None, {}, None),
     TaskCall("get_overlay_shard", None, {}, None)}
    \cup {TaskCall("add_private_overlay", k, {p}, None) : k \in Keys, p \in Peers}
    \cup {TaskCall("add_subscriber", None, {}, s) : s \in Subscribers}

Unlocked == [map \in {"shards", "subscribers"} |-> 0]
NoTasks ==
    /\ tasks = <<>>
    /\ entry_holder = Unlocked
    /\ detached = <<>>

never_blocked(holder, map) == TRUE

(* DashMap::entry, DashMap::get: the caller goes on when no Entry holds    *)
(* the lock of the map                                                     *)
can_lock(holder, map) == holder[map] = 0

(* the shard an Arc refers to *)
ShardOf(uid) ==
    IF TaskOverlay \in DOMAIN shards /\ shards[TaskOverlay].uid = uid
    THEN shards[TaskOverlay]
    ELSE detached[uid]

(* self.shards.entry(overlay_id) *)
task_shards_entry(t) ==
    /\ tasks[t].op \in {"add_public_overlay", "add_private_overlay",
                         "delete_private_overlay"}
    /\ tasks[t].pc = "entry"
    /\ can_lock(entry_holder, "shards")
    /\ entry_holder' = [entry_holder EXCEPT !["shards"] = t]
    /\ tasks' = [tasks EXCEPT
                    ![t].pc = "match",
                    ![t].entry = IF TaskOverlay \in DOMAIN shards THEN "Occupied"
                                 ELSE "Vacant",
                    ![t].shard = IF TaskOverlay \in DOMAIN shards
                                 THEN shards[TaskOverlay].uid ELSE 0]
    /\ UNCHANGED <<shards, subscribers, next_shard, detached>>

after_add_never_seeds(op, is_new) == "done"

(* where add_public_overlay and add_private_overlay go on after            *)
(* add_overlay_shard returned: `if new { shard.add_known_peers(peers) }`   *)
after_add_overlay_shard(op, is_new) ==
    IF op = "add_private_overlay" /\ is_new THEN "add_known_peers" ELSE "done"

(* the match of add_overlay_shard on its Entry *)
task_add_overlay_shard(t) ==
    LET call == tasks[t]
        is_new == call.entry = "Vacant"
        overlay_shard == OverlayShard_new(next_shard, TaskOverlay, call.overlay_key, "opt1")
        pc == after_add_overlay_shard(call.op, is_new)
        ret == IF pc # "done" THEN call.ret
               ELSE IF call.op = "add_public_overlay" THEN OkShard ELSE Ok(is_new)
    IN /\ call.op \in {"add_public_overlay", "add_private_overlay"}
       /\ call.pc = "match"
       /\ IF is_new
          THEN /\ shards' = Insert(shards, TaskOverlay, overlay_shard)
               /\ detached' = IF TaskOverlay \in DOMAIN shards
                               THEN Insert(detached, shards[TaskOverlay].uid,
                                           shards[TaskOverlay])
                               ELSE detached
               /\ next_shard' = next_shard + 1
               /\ tasks' = [tasks EXCEPT ![t].pc = pc, ![t].new = TRUE, ![t].ret = ret,
                                          ![t].shard = next_shard]
          ELSE /\ tasks' = [tasks EXCEPT ![t].pc = pc, ![t].new = FALSE, ![t].ret = ret]
               /\ UNCHANGED <<shards, detached, next_shard>>
       /\ entry_holder' = [entry_holder EXCEPT !["shards"] = 0]
       /\ UNCHANGED subscribers

(* shard.add_known_peers(peers) of add_private_overlay, then `new` *)
task_add_known_peers(t) ==
    LET call == tasks[t]
    IN /\ call.pc = "add_known_peers"
       /\ IF TaskOverlay \in DOMAIN shards /\ shards[TaskOverlay].uid = call.shard
          THEN /\ shards' = [shards EXCEPT
                                ![TaskOverlay] = add_known_peers(@, call.peers)]
               /\ detached' = detached
          ELSE /\ detached' = [detached EXCEPT
                                  ![call.shard] = add_known_peers(@, call.peers)]
               /\ shards' = shards
       /\ tasks' = [tasks EXCEPT ![t].pc = "done", ![t].ret = Ok(call.new)]
       /\ UNCHANGED <<subscribers, next_shard, entry_holder>>

(* the match of delete_private_overlay on its Entry *)
task_delete_private_overlay(t) ==
    LET call == tasks[t]
    IN /\ call.op = "delete_private_overlay"
       /\ call.pc = "match"
       /\ IF call.entry = "Vacant"
          THEN /\ tasks' = [tasks EXCEPT ![t].pc = "done", ![t].ret = Ok(FALSE)]
               /\ UNCHANGED <<shards, detached>>
          ELSE IF ~is_private(ShardOf(call.shard))
          THEN /\ tasks' = [tasks EXCEPT ![t].pc = "done",
                                         ![t].ret = Err("DeletingPublicOverlay")]
               /\ UNCHANGED <<shards, detached>>
          ELSE /\ tasks' = [tasks EXCEPT ![t].pc = "done", ![t].ret = Ok(TRUE)]
               /\ shards' = Remove(shards, TaskOverlay)
               /\ detached' = IF TaskOverlay \in DOMAIN shards
                               THEN Insert(detached, shards[TaskOverlay].uid,
                                           shards[TaskOverlay])
                               ELSE detached
       /\ entry_holder' = [entry_holder EXCEPT !["shards"] = 0]
       /\ UNCHANGED <<subscribers, next_shard>>

(* get_overlay_shard by a task, which then looks at the peers of the shard *)
task_get_overlay_shard(t) ==
    /\ tasks[t].op = "get_overlay_shard"
    /\ tasks[t].pc = "entry"
    /\ can_lock(entry_holder, "shards")
    /\ tasks' = IF TaskOverlay \in DOMAIN shards
                THEN [tasks EXCEPT ![t].pc = "done", ![t].ret = OkShard,
                                   ![t].shard = shards[TaskOverlay].uid,
                                   ![t].seen = shards[TaskOverlay].known_peers]
                ELSE [tasks EXCEPT ![t].pc = "done", ![t].ret = Err("UnknownOverlay")]
    /\ UNCHANGED <<shards, subscribers, next_shard, entry_holder, detached>>

(* self.subscribers.entry(overlay_id) *)
task_subscribers_entry(t) ==
    /\ tasks[t].op = "add_subscriber"
    /\ tasks[t].pc = "entry"
    /\ can_lock(entry_holder, "subscribers")
    /\ entry_holder' = [entry_holder EXCEPT !["subscribers"] = t]
    /\ tasks' = [tasks EXCEPT
                    ![t].pc = "match",
                    ![t].entry = IF TaskOverlay \in DOMAIN subscribers THEN "Occupied"
                                 ELSE "Vacant"]
    /\ UNCHANGED <<shards, subscribers, next_shard, detached>>

(* the match of add_subscriber on its Entry *)
task_add_subscriber(t) ==
    LET call == tasks[t]
    IN /\ call.op = "add_subscriber"
       /\ call.pc = "match"
       /\ IF call.entry = "Vacant"
          THEN /\ subscribers' = Insert(subscribers, TaskOverlay, call.subscriber)
               /\ tasks' = [tasks EXCEPT ![t].pc = "done", ![t].ret = Ok(TRUE)]
          ELSE /\ subscribers' = subscribers
               /\ tasks' = [tasks EXCEPT ![t].pc = "done", ![t].ret = Ok(FALSE)]
       /\ entry_holder' = [entry_holder EXCEPT !["subscribers"] = 0]
       /\ UNCHANGED <<shards, next_shard, detached>>

(* ------------------------- specifications ------------------------------ *)
EncIdle ==
    /\ engine = <<>>
    /\ params = [data_size |-> 0, symbol_size |-> 0, symbols_count |-> 0]
    /\ source_packets = <<>>
    /\ encoder_index = 0
    /\ seqno = [passed |-> 0, now |-> 0]
    /\ history = <<>>

Init == new /\ EncIdle /\ CipherIdle /\ BundleIdle /\ AdnlIdle /\ NoTasks

Next ==
    /\ \/ \E id \in OverlayIds, s \in Subscribers : add_subscriber(id, s)
       \/ \E id \in OverlayIds, o \in Options : add_public_overlay(id, o)
       \/ \E id \in OverlayIds, k \in Keys, ps \in SUBSET Peers, o \in Options :
              add_private_overlay(id, k, ps, o)
       \/ \E id \in OverlayIds : delete_private_overlay(id)
       \/ \E id \in OverlayIds : get_overlay_shard(id)
    /\ UNCHANGED <<encoder_vars, utils_vars, adnl_vars, task_vars>>

Spec == Init /\ [][Next]_vars

CustomNext ==
    /\ \/ \E id \in OverlayIds : add_public_overlay(id, "opt1")
       \/ \E id \in OverlayIds : add_private_overlay(id, "k1", {}, "opt1")
       \/ \E id \in OverlayIds : delete_private_overlay(id)
       \/ \E data \in CustomData : \E sr \in ShardResults(data) :
              try_consume_custom(data, sr)
    /\ UNCHANGED <<encoder_vars, utils_vars, adnl_vars, task_vars>>

CustomSpec == Init /\ [][CustomNext]_vars

QueryNext ==
    /\ \/ \E id \in OverlayIds, s \in Subscribers : add_subscriber(id, s)
       \/ \E id \in OverlayIds : add_public_overlay(id, "opt1")
       \/ \E id \in OverlayIds : add_private_overlay(id, "k1", {"p2"}, "opt1")
       \/ \E id \in OverlayIds : delete_private_overlay(id)
       \/ \E queries \in QueryBundles : \E cr \in ConsumerResults(queries) :
              try_consume_query_bundle(queries, cr)
    /\ UNCHANGED <<encoder_vars, utils_vars, adnl_vars, task_vars>>

QuerySpec == Init /\ [][QueryNext]_vars

EncNext ==
    /\ \/ \E blocks \in Partitions : \E data_size \in DataSizes(blocks) :
              with_data(blocks, data_size)
       \/ \E seqno_in \in 0..MaxSeqno :
              \E yields \in IF source_packets = <<>> THEN BOOLEAN ELSE {TRUE} :
                  encode(seqno_in, yields)
    /\ UNCHANGED <<overlay_vars, utils_vars, adnl_vars, task_vars>>

EncSpec == Init /\ [][EncNext]_vars

CipherInit ==
    /\ new
    /\ EncIdle
    /\ \E shared_secret \in SharedSecrets, checksum \in Checksums :
           cipher = [shared_secret |-> shared_secret, checksum |-> checksum,
                     built |-> Aes256Ctr(NoBytes, NoBytes)]
    /\ BundleIdle
    /\ AdnlIdle
    /\ NoTasks

CipherNext ==
    build_cipher /\ UNCHANGED <<overlay_vars, encoder_vars, deserializer, adnl_vars, task_vars>>

BundleInit ==
    /\ new
    /\ EncIdle
    /\ CipherIdle
    /\ \E bytes \in SeqsUpTo(Words, MaxWords) :
           deserializer = [BundleNotCalled EXCEPT !.bytes = bytes, !.pc = "loop"]
    /\ AdnlIdle
    /\ NoTasks

BundleNext ==
    deserialize_bundle /\ UNCHANGED <<overlay_vars, encoder_vars, cipher, adnl_vars, task_vars>>

(* the loop of deserialize_bundle is not suspended: it has no await        *)
BundleSpec == BundleInit /\ [][BundleNext]_vars /\ WF_vars(BundleNext)

CipherSpec == CipherInit /\ [][CipherNext]_vars

PeersNext ==
    /\ \/ \E local_id \in LocalIds, peers \in PeerLists, failing \in 0..MaxPeerList :
              /\ failing <= Len(peers)
              /\ add_private_peers(local_id, peers, failing)
       \/ \E local_id \in LocalIds, peers \in PeerIdLists :
              delete_private_peers(local_id, peers)
    /\ UNCHANGED <<overlay_vars, encoder_vars, utils_vars, task_vars>>

PeersSpec == Init /\ [][PeersNext]_vars

TaskInit ==
    /\ new
    /\ EncIdle
    /\ CipherIdle
    /\ BundleIdle
    /\ AdnlIdle
    /\ tasks \in [1..MaxTasks -> TaskCalls]
    /\ entry_holder = Unlocked
    /\ detached = <<>>

TaskNext ==
    /\ \E t \in DOMAIN tasks :
           \/ task_shards_entry(t)
           \/ task_add_overlay_shard(t)
           \/ task_add_known_peers(t)
           \/ task_delete_private_overlay(t)
           \/ task_get_overlay_shard(t)
           \/ task_subscribers_entry(t)
           \/ task_add_subscriber(t)
    /\ UNCHANGED <<last, encoder_vars, utils_vars, adnl_vars>>

TaskSpec == TaskInit /\ [][TaskNext]_vars

(* ------------------------- properties ---------------------------------- *)
Public(table, id) == id \in DOMAIN table /\ table[id].overlay_key = None
Private(table, id) == id \in DOMAIN table /\ table[id].overlay_key \in Keys

(* C1: a shard created public by add_public_overlay stays in the table,    *)
(* stays the same shard and stays public under every later call, and every *)
(* delete_private_overlay on its id returns DeletingPublicOverlay.         *)
C1_PublicOverlayNotDeleted ==
    [][/\ \A id \in OverlayIds :
            (last'.op = "add_public_overlay" /\ last'.overlay_id = id /\ last'.new)
                => Public(shards', id)
       /\ \A id \in OverlayIds :
            Public(shards, id) =>
                /\ Public(shards', id)
                /\ shards'[id].uid = shards[id].uid
                /\ (last'.op = "delete_private_overlay" /\ last'.overlay_id = id)
                       => last'.ret = Err("DeletingPublicOverlay")]_vars

C1_Witness ==
    /\ last.op = "delete_private_overlay"
    /\ last.ret = Err("DeletingPublicOverlay")
    /\ Public(shards, last.overlay_id)

(* C2: add_public_overlay on an absent id inserts exactly one shard and    *)
(* returns it with new = true; on a present id it returns the shard of the *)
(* table with new = false and leaves the whole table unchanged.            *)
C2_AddPublicIdempotent ==
    [][last'.op = "add_public_overlay" =>
        LET id == last'.overlay_id
        IN IF id \notin DOMAIN shards
           THEN /\ last'.new
                /\ DOMAIN shards' = DOMAIN shards \cup {id}
                /\ \A j \in DOMAIN shards : shards'[j] = shards[j]
                /\ last'.shard = shards'[id].uid
                /\ \A j \in DOMAIN shards : shards[j].uid # last'.shard
           ELSE /\ ~last'.new
                /\ last'.shard = shards[id].uid
                /\ shards' = shards]_vars

C2_Witness ==
    /\ last.op = "add_public_overlay"
    /\ ~last.new
    /\ last.overlay_id \in DOMAIN shards
    /\ last.shard = shards[last.overlay_id].uid

(* C3: add_private_overlay on an absent id inserts a private shard whose   *)
(* known peers are the given peers and returns true; on a present id it    *)
(* returns false and leaves the table, hence the shard's kind, key and     *)
(* known peers, unchanged.                                                 *)
C3_PrivateSeedsOnlyWhenNew ==
    [][last'.op = "add_private_overlay" =>
        LET id == last'.overlay_id
        IN IF id \notin DOMAIN shards
           THEN /\ last'.ret = Ok(TRUE)
                /\ Private(shards', id)
                /\ shards'[id].known_peers = last'.peers
                /\ \A j \in DOMAIN shards : shards'[j] = shards[j]
           ELSE /\ last'.ret = Ok(FALSE)
                /\ shards' = shards]_vars

C3_Witness ==
    /\ last.op = "add_private_overlay"
    /\ last.ret = Ok(FALSE)
    /\ last.overlay_id \in DOMAIN shards
    /\ ~(last.peers \subseteq shards[last.overlay_id].known_peers)

(* C4: the first add_subscriber for an id returns true and stores its      *)
(* subscriber; every later one returns false; a stored subscriber is never *)
(* replaced or removed by any call.                                        *)
C4_SubscriberNeverOverwritten ==
    [][/\ \A id \in DOMAIN subscribers :
            id \in DOMAIN subscribers' /\ subscribers'[id] = subscribers[id]
       /\ last'.op = "add_subscriber" =>
            IF last'.overlay_id \in DOMAIN subscribers
            THEN last'.ret = Ok(FALSE)
            ELSE /\ last'.ret = Ok(TRUE)
                 /\ subscribers' = Insert(subscribers, last'.overlay_id,
                                          last'.subscriber)]_vars

C4_Witness ==
    /\ last.op = "add_subscriber"
    /\ last.ret = Ok(FALSE)
    /\ subscribers[last.overlay_id] # last.subscriber

(* C5: try_consume_custom decides in this order: bytes that do not decode *)
(* as (Message, Broadcast) give Ok(false); else an overlay id with no      *)
(* shard gives UnknownOverlay; else a Broadcast goes to receive_broadcast  *)
(* and a BroadcastFec to receive_fec_broadcast of that shard, with Ok(true)*)
(* when the shard call succeeds; else UnsupportedOverlayBroadcastMessage   *)
(* and no shard method is invoked. The shard table is never changed.       *)
C5_CustomOutcomeOrder ==
    [][last'.op = "try_consume_custom" =>
        LET data == last'.data
            decodes == /\ Len(data) >= 2
                       /\ data[1].tag = "overlay.message"
                       /\ data[2].tag \in BroadcastTags
            uninvoked == last'.shard_method = None
            invoked(method) ==
                /\ last'.shard_method = method
                /\ last'.shard = shards[data[1].overlay].uid
                /\ last'.ret = IF last'.answer = ShardOk THEN Ok(TRUE) ELSE last'.answer
        IN /\ shards' = shards
           /\ IF ~decodes
              THEN last'.ret = Ok(FALSE) /\ uninvoked /\ last'.shard = 0
              ELSE IF data[1].overlay \notin DOMAIN shards
              THEN last'.ret = Err("UnknownOverlay") /\ uninvoked /\ last'.shard = 0
              ELSE IF data[2].tag = "overlay.broadcast"
              THEN invoked("receive_broadcast")
              ELSE IF data[2].tag = "overlay.broadcastFec"
              THEN invoked("receive_fec_broadcast")
              ELSE last'.ret = Err("UnsupportedOverlayBroadcastMessage") /\ uninvoked]_vars

C5_Witness ==
    /\ last.op = "try_consume_custom"
    /\ last.ret = Err("UnsupportedOverlayBroadcastMessage")
    /\ last.overlay_id \in DOMAIN shards

(* C6: a bundle that has not exactly two elements, or whose first element  *)
(* is not an overlay Query, is returned as Rejected with the same queries  *)
(* in the same order, and neither a shard nor a subscriber is invoked.     *)
C6_RejectedBundleIntact ==
    (/\ last.op = "try_consume_query_bundle"
     /\ (Len(last.data) # 2 \/ last.data[1].tag # "overlay.query"))
    => /\ last.ret = Rejected(last.data)
       /\ last.shard_method = None
       /\ last.shard = 0
       /\ last.consumer = None

C6_Witness ==
    /\ last.op = "try_consume_query_bundle"
    /\ Len(last.data) = 2
    /\ last.data[1].tag # "overlay.query"
    /\ last.data[1] # last.data[2]
    /\ last.ret.kind = "Rejected"

(* C7: for a bundle (Query{id}, inner): GetRandomPeers is handled by the   *)
(* shard of id (UnknownOverlay without one) and no subscriber is invoked;  *)
(* any other inner query goes to the subscriber registered for id, where   *)
(* none gives NoConsumerFound, Consumed(r) gives Consumed(r) and Rejected  *)
(* gives UnsupportedQuery.                                                 *)
C7_BundleRouting ==
    (/\ last.op = "try_consume_query_bundle"
     /\ Len(last.data) = 2
     /\ last.data[1].tag = "overlay.query")
    => LET id == last.data[1].overlay
           inner == last.data[2]
       IN IF inner.tag = "overlay.getRandomPeers"
          THEN /\ last.consumer = None
               /\ IF id \notin DOMAIN shards
                  THEN last.ret = Err("UnknownOverlay") /\ last.shard_method = None
                  ELSE /\ last.shard_method = "process_get_random_peers"
                       /\ last.shard = shards[id].uid
                       /\ last.ret = Consumed("nodes")
          ELSE /\ last.shard_method = None
               /\ last.shard = 0
               /\ IF id \notin DOMAIN subscribers
                  THEN last.ret = Err("NoConsumerFound") /\ last.consumer = None
                  ELSE /\ last.consumer = subscribers[id]
                       /\ last.answer.kind = "Consumed" => last.ret = last.answer
                       /\ last.answer.kind = "Rejected"
                              => last.ret = Err("UnsupportedQuery")

C7_Witness ==
    /\ last.op = "try_consume_query_bundle"
    /\ last.shard_method = "process_get_random_peers"
    /\ last.overlay_id \in DOMAIN subscribers

(* C8 as stated: a private shard in the table is still in the table, and   *)
(* the same shard, after every call.                                       *)
C8_PrivateNeverRemoved ==
    [][\A id \in OverlayIds :
          Private(shards, id) =>
              Private(shards', id) /\ shards'[id].uid = shards[id].uid]_vars

(* C8 amended: a private shard leaves the table only by a                  *)
(* delete_private_overlay call on its own id, which returns Ok(true); every*)
(* other call keeps it in the table as the same private shard.             *)
C8_PrivateRemovedOnlyByDelete ==
    [][\A id \in OverlayIds :
          Private(shards, id) =>
              IF last'.op = "delete_private_overlay" /\ last'.overlay_id = id
              THEN id \notin DOMAIN shards' /\ last'.ret = Ok(TRUE)
              ELSE Private(shards', id) /\ shards'[id] = shards[id]]_vars

C8_Witness ==
    /\ last.op = "delete_private_overlay"
    /\ last.ret = Ok(TRUE)
    /\ last.overlay_id \notin DOMAIN shards

(* every source packet of every block encoder of the engine *)
AllSourcePackets ==
    UNION {{EncodingPacket("source", b - 1, e) : e \in 0..(engine[b] - 1)} :
             b \in 1..Len(engine)}

C10_RepairKeepsPassedSeqno ==
    history # <<>> =>
        LET packet == history[Len(history)]
        IN /\ packet.kind = "source" => seqno.now = packet.esi
           /\ packet.kind = "repair" => seqno.now = seqno.passed

(* C10 amended: after every call that returns a packet seqno is that       *)
(* packet's encoding symbol id; for a repair packet the passed seqno is    *)
(* the repair symbol id asked of the block encoder, so seqno becomes the   *)
(* block's source symbol count plus the passed value, not the passed value.*)
C10_SeqnoIsPacketSymbolId ==
    history # <<>> =>
        LET packet == history[Len(history)]
        IN /\ packet.kind \in {"source", "repair"} => seqno.now = packet.esi
           /\ packet.kind = "source" => packet.esi < engine[packet.block + 1]
           /\ packet.kind = "repair" =>
                  /\ seqno.now = engine[packet.block + 1] + seqno.passed
                  /\ seqno.now # seqno.passed

C10_Witness ==
    /\ history # <<>>
    /\ history[Len(history)].kind = "repair"
    /\ seqno.passed > 0

(* the repair packets returned so far, in call order *)
RepairPackets == SelectSeq(history, LAMBDA packet : packet.kind = "repair")

(* C11: encoder_index starts at 0 and stays 0 while source packets are     *)
(* popped; every successful repair encode returns exactly one repair       *)
(* packet and moves encoder_index to (encoder_index + 1) mod block_count,  *)
(* so the n-th repair packet (n from 0) comes from block encoder n mod     *)
(* block_count; encoder_index is always less than block_count.             *)
C11_RepairRoundRobin ==
    /\ engine = <<>> => encoder_index = 0
    /\ engine # <<>> =>
           LET block_count == Len(engine)
           IN /\ encoder_index < block_count
              /\ Len(history) <= params.symbols_count => encoder_index = 0
              /\ encoder_index = Len(RepairPackets) % block_count
              /\ \A n \in 1..Len(RepairPackets) :
                     RepairPackets[n].block = (n - 1) % block_count

C11_Witness ==
    /\ Len(engine) >= 2
    /\ Len(RepairPackets) >= 2
    /\ RepairPackets[2].block = 1
    /\ encoder_index = 0
    /\ \E i \in 1..Len(history) : history[i].kind = "FailedToEncode"

(* the order in which the source packets of the engine leave the buffer:   *)
(* last block first, each block in ascending encoding symbol id            *)
RECURSIVE DrainOrder(_)
DrainOrder(b) ==
    IF b = 0 THEN <<>>
    ELSE [e \in 1..engine[b] |-> EncodingPacket("source", b - 1, e - 1)]
             \o DrainOrder(b - 1)

(* C12: the buffer built by with_data is the block encoders in library     *)
(* order, each block's source packets reversed; encode pops from its end,  *)
(* so the source packets come out last block first and within a block in   *)
(* ascending encoding symbol id, and what is left of the buffer is the     *)
(* reverse of what is still to come; for a single block the k-th encode    *)
(* call (k from 0, k < symbols_count) sets seqno to k.                     *)
C12_DrainOrderFixed ==
    engine # <<>> =>
        LET n == params.symbols_count
            order == DrainOrder(Len(engine))
            drained == IF Len(history) < n THEN Len(history) ELSE n
        IN /\ Len(order) = n
           /\ \A i \in 1..drained : history[i] = order[i]
           /\ Len(source_packets) = n - drained
           /\ \A i \in 1..Len(source_packets) :
                  source_packets[i] = order[n + 1 - i]
           /\ (Len(engine) = 1 /\ Len(history) \in 1..n) =>
                  seqno.now = Len(history) - 1

C12_Witness ==
    /\ Len(engine) >= 2
    /\ engine[1] >= 2
    /\ engine[2] >= 2
    /\ Len(history) = params.symbols_count
    /\ seqno.passed # seqno.now

(* C15: when the selected block encoder yields no repair packet the call   *)
(* returns FailedToEncode and changes nothing: encoder_index, the (empty)  *)
(* source buffer, the engine and the caller's seqno are as before, and the *)
(* failed call addressed the block encoder a retry will address; the       *)
(* failure never happens while a source packet is buffered.                *)
C15_FailedEncodeChangesNothing ==
    [][(history' # history /\ history'[Len(history')].kind = "FailedToEncode") =>
          /\ source_packets = <<>>
          /\ source_packets' = <<>>
          /\ encoder_index' = encoder_index
          /\ history'[Len(history')].block = encoder_index'
          /\ seqno'.now = seqno'.passed
          /\ engine' = engine
          /\ params' = params]_vars

C15_Witness ==
    /\ Len(engine) >= 2
    /\ Len(history) >= 2
    /\ history[Len(history)].kind = "repair"
    /\ history[Len(history) - 1].kind = "FailedToEncode"
    /\ history[Len(history) - 1].block = history[Len(history)].block
    /\ history[Len(history)].block = 1

(* C14: delete_private_overlay(id) with no shard for id returns Ok(false)  *)
(* and changes nothing; on a private shard it removes exactly that shard   *)
(* and returns Ok(true); whenever id has no shard, get_overlay_shard(id)   *)
(* fails with UnknownOverlay and add_public_overlay(id) or                 *)
(* add_private_overlay(id) returns new = true; every delete leaves the     *)
(* shards of other ids and all subscribers, the one of id included, as     *)
(* they were.                                                              *)
C14_DeleteRemovesOnlyThatShard ==
    [][LET id == last'.overlay_id
       IN /\ last'.op = "delete_private_overlay" =>
                /\ subscribers' = subscribers
                /\ \A j \in OverlayIds \ {id} :
                       /\ j \in DOMAIN shards' <=> j \in DOMAIN shards
                       /\ j \in DOMAIN shards => shards'[j] = shards[j]
                /\ id \notin DOMAIN shards =>
                       last'.ret = Ok(FALSE) /\ shards' = shards
                /\ Private(shards, id) =>
                       /\ last'.ret = Ok(TRUE)
                       /\ DOMAIN shards' = DOMAIN shards \ {id}
          /\ (last'.op = "get_overlay_shard" /\ id \notin DOMAIN shards) =>
                last'.ret = Err("UnknownOverlay")
          /\ (/\ last'.op \in {"add_public_overlay", "add_private_overlay"}
              /\ id \notin DOMAIN shards) =>
                /\ last'.new
                /\ last'.op = "add_private_overlay" => last'.ret = Ok(TRUE)
                /\ id \in DOMAIN shards'
                /\ shards'[id].uid = last'.shard]_vars

(* a shard added again after its private predecessor was deleted, with the *)
(* subscriber of the id and the shard of the other id still in place       *)
C14_Witness ==
    /\ last.op = "delete_private_overlay"
    /\ last.ret = Ok(TRUE)
    /\ last.overlay_id = "o1"
    /\ "o1" \notin DOMAIN shards
    /\ "o1" \in DOMAIN subscribers
    /\ "o2" \in DOMAIN shards
    /\ "o2" \in DOMAIN subscribers

(* C19: for a bundle (Query{id}, inner) whose inner query is not           *)
(* GetRandomPeers and with a subscriber registered for id, the query goes  *)
(* to that subscriber and its Consumed result is returned whether or not   *)
(* the shard table has a shard for id: no shard is looked up or invoked,   *)
(* the shard table is left as it was and the result is never               *)
(* UnknownOverlay.                                                         *)
C19_SubscriberRoutingIgnoresShards ==
    [][(/\ last'.op = "try_consume_query_bundle"
        /\ Len(last'.data) = 2
        /\ last'.data[1].tag = "overlay.query"
        /\ last'.data[2].tag # "overlay.getRandomPeers"
        /\ last'.data[1].overlay \in DOMAIN subscribers)
       => /\ last'.consumer = subscribers[last'.data[1].overlay]
          /\ last'.shard = 0
          /\ last'.shard_method = None
          /\ shards' = shards
          /\ last'.ret # Err("UnknownOverlay")
          /\ last'.answer.kind = "Consumed" =>
                 last'.ret = Consumed(last'.answer.val)]_vars

(* the subscriber of an id answered a query although the shard of that id  *)
(* had been deleted                                                        *)
C19_Witness ==
    /\ last.op = "try_consume_query_bundle"
    /\ last.ret.kind = "Consumed"
    /\ last.consumer \in Subscribers
    /\ last.overlay_id \notin DOMAIN shards
    /\ next_shard = 2
    /\ shards = <<>>

(* the array with the bytes lo .. hi-1 set to zero *)
Zeroed(array, lo, hi) == [i \in DOMAIN array |-> IF lo <= i /\ i < hi THEN 0 ELSE array[i]]

(* C13: the key of the cipher is shared_secret[0..16] followed by          *)
(* checksum[16..32], its 16-byte counter block is checksum[0..4] followed  *)
(* by shared_secret[20..32]; the other bytes, shared_secret[16..20] and    *)
(* checksum[4..16], change neither.                                        *)
C13_CipherKeyAndCounter ==
    cipher.built.key # NoBytes =>
        LET key == cipher.built.key
            nonce == cipher.built.nonce
        IN /\ DOMAIN key = 0..31
           /\ DOMAIN nonce = 0..15
           /\ \A i \in 0..15 : key[i] = cipher.shared_secret[i]
           /\ \A i \in 16..31 : key[i] = cipher.checksum[i]
           /\ \A i \in 0..3 : nonce[i] = cipher.checksum[i]
           /\ \A i \in 4..15 : nonce[i] = cipher.shared_secret[i + 16]
           /\ cipher.built = build_packet_cipher(Zeroed(cipher.shared_secret, 16, 20),
                                                 Zeroed(cipher.checksum, 4, 16))

(* a cipher built from inputs changed in a byte that is not used and in    *)
(* one that is                                                             *)
C13_Witness ==
    /\ cipher.built.key # NoBytes
    /\ cipher.shared_secret[17] # 17
    /\ cipher.checksum[20] # 84
    /\ cipher.built.key[20] # 84

(* the words a boxed object is written as, and those of a list of objects  *)
Boxed(object) == <<object.constructor>> \o object.fields
RECURSIVE BoxedList(_)
BoxedList(objects) ==
    IF objects = <<>> THEN <<>> ELSE Boxed(Head(objects)) \o BoxedList(Tail(objects))

(* no boxed object starts the words rest *)
NoObjectAt(rest) ==
    \/ rest = <<>>
    \/ rest[1] \notin {"ctorA", "ctorB"}
    \/ rest[1] = "ctorB" /\ Len(rest) = 1

(* C16: deserialize_bundle returns on every input, and never an empty      *)
(* list: when no object can be read at the start of the input it returns   *)
(* the error of that read; otherwise it returns, in input order, the       *)
(* objects written at the start of the input up to the first place where   *)
(* no object can be read, and neither that failure nor the words after it  *)
(* show in the result.                                                     *)
C16_BundleIsDecodablePrefix ==
    /\ (deserializer.pc = "loop") ~> (deserializer.pc = "done")
    /\ [](deserializer.pc = "done" =>
            IF NoObjectAt(deserializer.bytes)
            THEN /\ deserializer.ret.kind = "Err"
                 /\ deserializer.ret.error = read_boxed(deserializer.bytes, 1).error
            ELSE LET written == BoxedList(deserializer.ret.objects)
                 IN /\ deserializer.ret.kind = "Ok"
                    /\ deserializer.ret.objects # <<>>
                    /\ Len(written) <= Len(deserializer.bytes)
                    /\ written = SubSeq(deserializer.bytes, 1, Len(written))
                    /\ NoObjectAt(SubSeq(deserializer.bytes, Len(written) + 1,
                                         Len(deserializer.bytes))))

(* two objects were read, then a word that starts none, with a word after  *)
C16_Witness ==
    /\ deserializer.pc = "done"
    /\ deserializer.ret.kind = "Ok"
    /\ Len(deserializer.ret.objects) = 2
    /\ deserializer.ret.objects[1].constructor = "ctorB"
    /\ Len(BoxedList(deserializer.ret.objects)) = 3
    /\ Len(deserializer.bytes) = 4

(* the short ids of a peer list, in list order *)
PeerIdsOf(peers) == [i \in 1..Len(peers) |-> compute_node_ids(peers[i].public_key).peer_id]

(* of the first upto ids, those not in known and not repeated, in order    *)
FirstTimeNew(ids, known, upto) ==
    LET keep == {i \in 1..upto : ids[i] \notin known /\
                                  \A j \in 1..(i - 1) : ids[j] # ids[i]}
    IN [n \in 1..Cardinality(keep) |->
           ids[CHOOSE i \in keep : Cardinality({j \in keep : j <= i}) = n]]

(* C20: add_private_peers returns, in input order, exactly the peers that  *)
(* were not known for local_id before the call and not earlier in the      *)
(* list, all of which are known afterwards; a second call with the same    *)
(* arguments right after a successful one returns the empty list; when     *)
(* add_peer fails for a peer the call returns that error, and the peers    *)
(* before it are known afterwards all the same.                            *)
C20_NewPeersInInputOrder ==
    [][peers_call'.op = "add_private_peers" =>
          LET call == peers_call'
              local_id == call.local_id
              ids == PeerIdsOf(call.peers)
          IN IF local_id \notin DOMAIN adnl_peers
             THEN /\ call.peers # <<>> => call.ret = PeersErr("UnknownLocalKey")
                  /\ adnl_peers' = adnl_peers
             ELSE LET known == DOMAIN adnl_peers[local_id]
                      reached == IF call.failing = 0 THEN Len(ids)
                                 ELSE call.failing - 1
                  IN /\ call.failing = 0 =>
                            call.ret = PeersOk(FirstTimeNew(ids, known, Len(ids)), FALSE)
                     /\ call.failing # 0 => call.ret = PeersErr("AdnlError")
                     /\ DOMAIN adnl_peers'[local_id] =
                            known \cup {ids[i] : i \in 1..reached}
                     /\ \A id \in known :
                            adnl_peers'[local_id][id] = adnl_peers[local_id][id]
                     /\ (/\ peers_call.op = "add_private_peers"
                         /\ peers_call.ret.kind = "Ok"
                         /\ peers_call.local_id = local_id
                         /\ peers_call.peers = call.peers
                         /\ call.ret.kind = "Ok") =>
                            call.ret.new_peers = <<>>]_vars

(* a call whose list names a peer twice and fails at its third entry,      *)
(* after inserting the peer it returned nothing about                      *)
C20_Witness ==
    /\ peers_call.op = "add_private_peers"
    /\ peers_call.failing = 3
    /\ peers_call.ret.kind = "Err"
    /\ PeerIdsOf(peers_call.peers)[1] = PeerIdsOf(peers_call.peers)[2]
    /\ peers_call.peers[1] # peers_call.peers[2]
    /\ DOMAIN adnl_peers["l1"] = {PeerIdsOf(peers_call.peers)[1]}

(* tasks by call, and the calls that are past their match                  *)
TasksOf(ops) == {t \in DOMAIN tasks : tasks[t].op \in ops}
Adders == TasksOf({"add_public_overlay", "add_private_overlay"})
Matched(t) == tasks[t].pc \in {"add_known_peers", "done"}

(* C17: of add_public_overlay and add_private_overlay calls running        *)
(* concurrently on one absent overlay id (and no delete), exactly one      *)
(* returns new = true, every call holds the one shard that is in the       *)
(* table, only one shard is ever made, and it is public or private with    *)
(* the overlay key of the call that returned new = true; of concurrent     *)
(* add_subscriber calls exactly one returns true, and its subscriber is    *)
(* the one registered.                                                     *)
C17_OneCreatorPerOverlay ==
    /\ TasksOf({"delete_private_overlay"}) = {} =>
           LET winners == {t \in Adders : Matched(t) /\ tasks[t].new}
           IN /\ Cardinality(winners) <= 1
              /\ next_shard <= 2
              /\ (\E t \in Adders : Matched(t)) =>
                     /\ Cardinality(winners) = 1
                     /\ TaskOverlay \in DOMAIN shards
                     /\ \A t \in Adders :
                            Matched(t) => tasks[t].shard = shards[TaskOverlay].uid
                     /\ \A t \in TasksOf({"get_overlay_shard"}) :
                            tasks[t].ret = OkShard =>
                                tasks[t].shard = shards[TaskOverlay].uid
                     /\ \A w \in winners :
                            shards[TaskOverlay].overlay_key = tasks[w].overlay_key
              /\ \A t \in Adders :
                     (tasks[t].pc = "done" /\ tasks[t].op = "add_private_overlay") =>
                         tasks[t].ret = Ok(tasks[t].new)
    /\ LET done == {t \in TasksOf({"add_subscriber"}) : tasks[t].pc = "done"}
           first == {t \in done : tasks[t].ret = Ok(TRUE)}
       IN /\ \A t \in done : tasks[t].ret \in {Ok(TRUE), Ok(FALSE)}
          /\ done # {} =>
                 /\ Cardinality(first) = 1
                 /\ \A t \in first : subscribers[TaskOverlay] = tasks[t].subscriber

(* a private and a public add raced, the private one made the shard        *)
C17_Witness ==
    /\ \A t \in DOMAIN tasks : tasks[t].pc = "done"
    /\ \E a, b \in Adders :
           /\ tasks[a].op = "add_private_overlay"
           /\ tasks[a].new
           /\ tasks[b].op = "add_public_overlay"
           /\ ~tasks[b].new
           /\ tasks[b].shard = tasks[a].shard
           /\ is_private(shards[TaskOverlay])

(* C18 as stated: a private shard another task got from get_overlay_shard  *)
(* holds every seed peer of the add_private_overlay call that made it, and *)
(* a call that is about to add its seed peers finds its shard in the shard *)
(* table.                                                                  *)
C18_SeededBeforeVisible ==
    \A c \in TasksOf({"add_private_overlay"}) :
        /\ \A g \in TasksOf({"get_overlay_shard"}) :
               (/\ tasks[c].new
                /\ tasks[g].ret = OkShard
                /\ tasks[g].shard = tasks[c].shard) =>
                   tasks[c].peers \subseteq tasks[g].seen
        /\ tasks[c].pc = "add_known_peers" =>
               /\ TaskOverlay \in DOMAIN shards
               /\ shards[TaskOverlay].uid = tasks[c].shard

(* C18 amended: the shard is put in the table first and seeded afterwards, *)
(* so what holds is that when add_private_overlay has returned true the    *)
(* shard it made holds every seed peer passed to it, be the shard still in *)
(* the table or already deleted from it; until then the shard holds no     *)
(* peer, and no other call adds one.                                       *)
C18_SeededOnReturn ==
    \A c \in TasksOf({"add_private_overlay"}) :
        /\ tasks[c].pc = "done" =>
               /\ tasks[c].ret = Ok(tasks[c].new)
               /\ tasks[c].new =>
                      ShardOf(tasks[c].shard).known_peers = tasks[c].peers
        /\ (tasks[c].pc = "add_known_peers") =>
               /\ tasks[c].new
               /\ ShardOf(tasks[c].shard).known_peers = {}

(* a task got the shard before its maker had seeded it *)
C18_Witness ==
    \E c \in TasksOf({"add_private_overlay"}), g \in TasksOf({"get_overlay_shard"}) :
        /\ tasks[c].pc = "done"
        /\ tasks[c].new
        /\ tasks[g].ret = OkShard
        /\ tasks[g].shard = tasks[c].shard
        /\ tasks[g].seen = {}
        /\ shards[TaskOverlay].known_peers = tasks[c].peers
====
